---- MODULE Spec2Model ----
(***************************************************************************)
(* Model of the long-polling dispatch loop of package bot (Bot.Start,      *)
(* Bot.getUpdates, Bot.GetMe) together with its environment: the remote    *)
(* update source, the cancellation signal of the context, and the handler  *)
(* goroutines the loop spawns.                                             *)
(*                                                                         *)
(* getUpdates decodes a whole batch at once.  Only the range loop of Start *)
(* reads the batch, one update after the other, so the model fixes the     *)
(* length of the batch when getUpdates returns and draws each update when  *)
(* the loop reaches it.                                                    *)
(***************************************************************************)
EXTENDS Integers, Sequences, FiniteSets, TLC

\* ---- bounds of the model ----
MaxId == 2        \* update ids the update source may use: 0..MaxId
MaxBatch == 2     \* longest batch one getUpdates call returns
MaxCount == 2     \* saturation value of the observation counters
MaxTasks == 2     \* most handler goroutines in flight at once
MaxLen == 6       \* longest message text given to Execute
MaxRegs == 3      \* most Register calls of a recorded history
MaxProcs == 3     \* goroutines that call Execute concurrently
MaxText == 3      \* longest message text given to handleMessage

VARIABLES
    pc,          \* position of Start: init, getMe, select, getUpdates, range, sleep, done
    ctxErr,      \* ctx.Err(): NoErr until the context is cancelled
    offset,      \* b.offset
    n,           \* len(updates) of the batch of the current iteration
    idx,         \* number of updates of the batch the range loop has taken
    update,      \* the loop variable `update` (NoUpdate before the first)
    err,         \* the local `err` of the current iteration
    getMeErr,    \* the error GetMe returned to Start
    ret,         \* the error Start returned (meaningful when pc = "done")
    retLine,     \* source line of the return statement Start left by (0: none)
    request,     \* parameters of the latest getUpdates request (NoRequest: none)
    tasks,       \* handleMessage goroutines in flight: <<sound, panicking>>
    crashed,     \* a panic has ended the process
    errStreak,   \* number of consecutive failed fetches (saturating)
    ascending,   \* the ids of the batch taken so far are strictly ascending
    received,    \* messages of the current batch the range loop has taken
    handed,      \* handleMessage goroutines spawned for the current batch
    maxConsumed, \* highest update id the range loop has processed (-1: none)
    spawned,     \* update ids whose message was handed to a handleMessage goroutine
    respawned,   \* some update id had its message handed to a second goroutine
    honoured,    \* the update source has honoured the offset so far
    advanced,    \* b.offset was the update's id + 1 at every go statement so far
    sendFailed,  \* the SendMessage of some handleMessage goroutine has failed
    registry,    \* cr.registry: command name -> handler
    bot,         \* the bot of the latest Execute call (NilBot: none)
    msg,         \* the message of the latest Execute call (NilMessage: none)
    executed,    \* what the latest Execute call returned
    calls,       \* the handler invocations of the latest Execute call
    registered,  \* the Register calls so far, in order (where they are recorded)
    procs,       \* the goroutines that call Execute: position, lookup, result
    invoked,     \* handler -> number of times those goroutines have called it
    writer,      \* the Register call in progress beside them (NoWrite: none)
    written,     \* the handler of the latest such call that ended (<<>>: none)
    mixed,       \* a Register call and an Execute call have overlapped or
                 \* the Register call came later
    fatal,       \* the runtime has ended the process on a concurrent map access
    hasRegistry, \* b.commandRegistry != nil
    handled,     \* the message of the latest handleMessage call (NilMessage: none)
    sent,        \* the SendMessage calls of that handleMessage call, in order
    panicked,    \* that handleMessage call ended in a panic
    call,        \* the latest request: method, context error, what the transport did
    outcome,     \* what makeRequest and the operation returned for it
    logs,        \* the log records written for it
    inflight,    \* the handleMessage goroutines in flight, in the order of their
                 \* go statements: <<update id, class>> (where they are tracked)
    overtaken    \* a goroutine has ended while one started before it was running

\* the state of the command registry and of its latest Execute call
regVars == <<registry, bot, msg, executed, calls>>

\* the handleMessage goroutines one by one
orderVars == <<inflight, overtaken>>

\* what no step of Start and of the handleMessage goroutines touches, the
\* record of the goroutines one by one aside
nonBotVars == <<regVars, registered, procs, invoked, writer, written, mixed, fatal,
                hasRegistry, handled, sent, panicked, call, outcome, logs>>

\* the state of the bot, of Start and of the handleMessage goroutines
botVars == <<pc, ctxErr, offset, n, idx, update, err, getMeErr, ret, retLine,
             request, tasks, crashed, errStreak, ascending, received, handed,
             maxConsumed, spawned, respawned, honoured, advanced, sendFailed>>

\* what no call of the command registry touches
nonRegVars == <<botVars, procs, invoked, writer, written, mixed, fatal,
                hasRegistry, handled, sent, panicked, call, outcome, logs,
                orderVars>>

\* the goroutines that call Execute concurrently, and the Register beside them
concVars == <<procs, invoked, writer, written, mixed, fatal>>

\* the bot's registry pointer and the latest handleMessage call
handleVars == <<hasRegistry, handled, sent, panicked>>

\* the latest request of makeRequest
reqVars == <<call, outcome, logs>>

\* what no step of the concurrent Execute and Register calls touches, the
\* record of the sequential calls aside
nonConcVars == <<botVars, handleVars, reqVars, orderVars>>

vars == <<pc, ctxErr, offset, n, idx, update, err, getMeErr, ret, retLine,
          request, tasks, crashed, errStreak, ascending, received, handed,
          maxConsumed, spawned, respawned, honoured, advanced, sendFailed,
          registry, bot, msg, executed, calls, registered,
          procs, invoked, writer, written, mixed, fatal,
          hasRegistry, handled, sent, panicked, call, outcome, logs,
          inflight, overtaken>>

\* ---- values ----
\* update ids are API identifiers far below the range of int: UpdateID + 1
\* does not wrap
Ids == 0..MaxId
NoErr == <<>>                              \* a nil error
Canceled == <<"context canceled">>         \* context.Canceled
NilMessage == <<>>                         \* a nil *Message
NilUser == <<>>                            \* a nil *User
Users == {[first_name |-> "Ana"]}
Messages == [from : {NilUser} \cup {<<u>> : u \in Users}, chat_id : {1}, text : {"hola"}]
Updates == [update_id : Ids, message : {NilMessage} \cup {<<m>> : m \in Messages}]
NoUpdate == <<>>

\* make(map[string]Command): the empty command table
NoCommands == [c \in {} |-> 0]

\* A text given to Execute is a sequence of characters: the marker, the
\* selector separator, a white space, and a letter in both cases.
Chars == {"/", "@", " ", "a", "A"}
Texts == UNION {[1..k -> Chars] : k \in 0..MaxLen}
Marker == <<"/">>

\* names a caller registers: Register takes any string, the empty one too
CommandNames == {<<>>, <<"a">>, <<"A">>}
Handlers == {"h1", "h2"}
NilBot == <<>>
Bots == {"bot"}
ExecMessages == [from : {<<u>> : u \in Users}, chat_id : {1}, text : Texts]

\* the messages given to handleMessage: with and without a sender, of two chats
HandleTexts == UNION {[1..k -> Chars] : k \in 0..MaxText}
HandleMessages ==
    [from : {NilUser} \cup {<<u>> : u \in Users}, chat_id : {1, 2}, text : HandleTexts]

\* goroutines that call Execute, and the state of one that has not begun
Procs == 1..MaxProcs
Idle == [pc |-> "idle", raced |-> FALSE, found |-> <<>>, running |-> FALSE, ret |-> FALSE]
NoWrite == <<>>
NoCall == <<>>
NoOutcome == <<>>
\* the command of the concurrent calls ("start" in the tests)
StartCommand == <<"a">>

Sat(k) == IF k < MaxCount THEN k + 1 ELSE MaxCount

\* fmt.Errorf("...: %w", e): a new layer around e
Wrap(layer, e) == <<layer>> \o e

\* errors.Is(e, target) for the one-layer targets used here
ErrorsIs(e, target) == e # NoErr /\ SubSeq(e, Len(e), Len(e)) = target

\* The errors makeRequest can return while ctx.Err() = c.
MakeRequestErrors(c) ==
    {<<"error making request", "network">>,
     <<"error reading response", "network">>,
     <<"error unmarshaling response">>,
     <<"API error">>}
    \cup (IF c # NoErr
          THEN {Wrap("error making request", c), Wrap("error reading response", c)}
          ELSE {})

GetMeErrors(c) == MakeRequestErrors(c) \cup {<<"json: cannot unmarshal">>}

GetUpdatesErrors(c) == MakeRequestErrors(c) \cup {<<"error unmarshaling updates">>}

\* The update u, which follows prev in a batch (NoUpdate: u is the first),
\* honours the request when its id is not below the requested offset and is
\* above the id of prev.
Honours(u, prev, req) ==
    /\ u.update_id >= req.offset
    /\ prev # NoUpdate => u.update_id > prev.update_id

\* ---- Bot.getUpdates ----
timeout == 60      \* seconds of long polling

NoRequest == <<>>

\* faulty variant: the request does not carry the bot's offset
GetUpdatesParamsNoOffset(o) == [offset |-> 0, timeout |-> timeout]

\* the params map of getUpdates
GetUpdatesParams(o) == [offset |-> o, timeout |-> timeout]

\* faulty variant: getUpdates moves the offset past the batch it returns
OffsetAfterFetchMoved(o, k) == o + k

\* b.offset after getUpdates has returned k updates: getUpdates reads
\* b.offset for its params and writes nothing
OffsetAfterFetch(o, k) == o

\* ---- Bot.Start ----
\* faulty variants of the offset assignment: "- 1" for "+ 1", and no "+ 1"
NextOffsetBehind(u) == u.update_id - 1
NextOffsetSame(u) == u.update_id

\* b.offset = update.UpdateID + 1
NextOffset(u) == u.update_id + 1

VerifyError(e) == Wrap("error verificando bot", e)

\* faulty variant: the failed verification is not returned, polling starts
AfterGetMeContinue(e) == [pc |-> "select", ret |-> NoErr, line |-> 0]

\* what Start does with the result of GetMe
AfterGetMe(e) ==
    IF e # NoErr
    THEN [pc |-> "done", ret |-> VerifyError(e), line |-> 152]
    ELSE [pc |-> "select", ret |-> NoErr, line |-> 0]

\* faulty variant: the loop has no Done case
SelectDoneNever(c) == FALSE

\* the select statement: the Done case is taken when the context is cancelled
SelectDone(c) == c # NoErr

\* faulty variants of the error branch: no check of ctx.Err(); the fetch
\* error returned in place of ctx.Err(); `continue` without the pause
AfterFetchErrorNoCheck(e, c) == [pc |-> "sleep", ret |-> NoErr, line |-> 0]
AfterFetchErrorReturnsErr(e, c) ==
    IF c # NoErr
    THEN [pc |-> "done", ret |-> e, line |-> 167]
    ELSE [pc |-> "sleep", ret |-> NoErr, line |-> 0]
AfterFetchErrorNoPause(e, c) ==
    IF c # NoErr
    THEN [pc |-> "done", ret |-> c, line |-> 167]
    ELSE [pc |-> "select", ret |-> NoErr, line |-> 0]

\* faulty variant: after a failed fetch the bot is verified again
AfterFetchErrorVerifies(e, c) ==
    IF c # NoErr
    THEN [pc |-> "done", ret |-> c, line |-> 167]
    ELSE [pc |-> "getMe", ret |-> NoErr, line |-> 0]

\* what Start does with a failed getUpdates
AfterFetchError(e, c) ==
    IF c # NoErr
    THEN [pc |-> "done", ret |-> c, line |-> 167]
    ELSE [pc |-> "sleep", ret |-> NoErr, line |-> 0]

\* faulty variant: the body of the range loop runs for an empty batch too
AfterFetchBody(k) == "range"

\* where Start goes with a batch of k updates: `for _, update := range
\* updates` has no iteration for an empty batch, the loop starts over
AfterFetch(k) == IF k = 0 THEN "select" ELSE "range"

\* faulty variant: the pause is followed by the fetch, not by the select
AfterPauseFetches(c) == "getUpdates"

\* where Start goes when the pause ends with ctx.Err() = c: `continue` leads
\* to the top of the for loop, the select statement
AfterPause(c) == "select"

\* faulty variant: the range loop stops at a cancelled context
RangeStopsOnCancel(c) == c # NoErr

\* whether the range loop stops before its next update when ctx.Err() = c:
\* its body has no look at the context
RangeStops(c) == FALSE

\* faulty variant: the go statement comes before the assignment of b.offset
OffsetAtSpawnStale(o, u) == o

\* the value of b.offset when the go statement of the iteration for u runs
\* (o: its value when the iteration began): the assignment comes first
OffsetAtSpawn(o, u) == NextOffset(u)

\* faulty variant: a message without a sender is not handed to a goroutine
SpawnsWithSender(u) == u.message # NilMessage /\ u.message[1].from # NilUser

\* the range loop spawns a goroutine for an update that carries a message
Spawns(u) == u.message # NilMessage

\* faulty variant: handleMessage is called without "go", so the loop goes on
\* only when no handler is running
LoopWaitsForHandlers(t) == t[1] + t[2] > 0

\* go b.handleMessage(ctx, msg): the go statement returns at once and Start
\* has no join on the goroutines it started (t: the goroutines in flight)
LoopWaits(t) == FALSE

\* ---- CommandRegistry ----
\* unicode.IsSpace, on the characters of Chars
IsSpace(c) == c = " "

\* strings.HasPrefix
HasPrefix(s, prefix) ==
    Len(s) >= Len(prefix) /\ SubSeq(s, 1, Len(prefix)) = prefix

\* strings.Fields: s is what is left to read, cur the token being read, acc
\* the tokens read; runs of white space separate tokens and yield none
RECURSIVE FieldsFrom(_, _, _)
FieldsFrom(s, cur, acc) ==
    IF s = <<>>
    THEN IF cur = <<>> THEN acc ELSE Append(acc, cur)
    ELSE IF IsSpace(Head(s))
         THEN FieldsFrom(Tail(s), <<>>, IF cur = <<>> THEN acc ELSE Append(acc, cur))
         ELSE FieldsFrom(Tail(s), Append(cur, Head(s)), acc)

Fields(s) == FieldsFrom(s, <<>>, <<>>)

\* strings.TrimPrefix: removes prefix once, if s starts with it
TrimPrefix(s, prefix) ==
    IF HasPrefix(s, prefix) THEN SubSeq(s, Len(prefix) + 1, Len(s)) ELSE s

\* strings.Split on a one-character separator: every occurrence ends a
\* piece, the empty ones included; a text without it is the one piece
RECURSIVE SplitFrom(_, _, _, _)
SplitFrom(s, sep, cur, acc) ==
    IF s = <<>>
    THEN Append(acc, cur)
    ELSE IF Head(s) = sep
         THEN SplitFrom(Tail(s), sep, <<>>, Append(acc, cur))
         ELSE SplitFrom(Tail(s), sep, Append(cur, Head(s)), acc)

Split(s, sep) == SplitFrom(s, sep, <<>>, <<>>)

\* faulty variant: the prefix check is missing
IsCommandAny(t) == TRUE

\* strings.HasPrefix(msg.Text, "/")
IsCommand(t) == HasPrefix(t, Marker)

\* faulty variant: the selector suffix is not cut off
CommandOfNoSplit(parts) == TrimPrefix(parts[1], Marker)

\* the command of the tokens parts: parts[0] without a leading marker, up to
\* the first "@"
CommandOf(parts) == Split(TrimPrefix(parts[1], Marker), "@")[1]

\* faulty variant: the lookup ignores the case of the letters
LookupFold(reg, command) ==
    LET Lower(k) == [i \in 1..Len(k) |-> IF k[i] = "A" THEN "a" ELSE k[i]]
        ks == {k \in DOMAIN reg : Lower(k) = Lower(command)}
    IN  IF ks = {} THEN <<>> ELSE <<reg[CHOOSE k \in ks : TRUE]>>

\* action, exists := cr.registry[command]: <<action>> if it exists, else <<>>
Lookup(reg, command) ==
    IF command \in DOMAIN reg THEN <<reg[command]>> ELSE <<>>

\* faulty variant: the table is replaced by one that holds the new entry only
PutAlone(reg, command, action) == (command :> action)

\* faulty variant: a name that has a handler keeps it
PutIfAbsent(reg, command, action) ==
    IF command \in DOMAIN reg THEN reg ELSE (command :> action) @@ reg

\* cr.registry[command] = action
Put(reg, command, action) == (command :> action) @@ reg

\* faulty variant: the handler gets the message cut down to its first token
HandlerArgsFirstToken(b, m) ==
    [bot |-> b, msg |-> [m EXCEPT !.text = Fields(m.text)[1]]]

\* action(ctx, bot, msg): the arguments the handler is called with
HandlerArgs(b, m) == [bot |-> b, msg |-> m]

\* faulty variant: the lookup takes the entry out of the table
TableAfterLookupTaken(reg, command) ==
    [k \in DOMAIN reg \ {command} |-> reg[k]]

\* the table after the lookup of Execute: a map read leaves the map as it is
TableAfterLookup(reg, command) == reg

\* faulty variant: the handler is started with "go", Execute returns at once
CanReturnAsync(r) == TRUE

\* whether the Execute call in state r can execute "return true": the call
\* action(ctx, bot, msg) is an ordinary call and has returned by then
CanReturn(r) == ~r.running

\* Execute: what it returns and the handler invocations it makes, in order
ExecuteResult(reg, b, m) ==
    LET none == [ret |-> FALSE, calls |-> <<>>]
    IN  IF ~IsCommand(m.text)
        THEN none
        ELSE LET parts == Fields(m.text)
             IN  IF Len(parts) = 0
                 THEN none
                 ELSE LET found == Lookup(reg, CommandOf(parts))
                      IN  IF found = <<>>
                          THEN none
                          ELSE [ret |-> TRUE,
                                calls |-> <<[handler |-> found[1],
                                             args |-> HandlerArgs(b, m)]>>]

\* ---- Bot.handleMessage ----
\* handleMessage reads msg.From.FirstName first: a nil From is a nil pointer
\* dereference
Panics(m) == m.from = NilUser

\* SendMessage returns the error of makeRequest as it is
SendMessageErrors(c) == MakeRequestErrors(c)

\* faulty variant: log.Fatalf for log.Printf, a failed send ends the process
SendErrorFatal(e) == e # NoErr

\* whether handleMessage ends the process after its SendMessage returned e:
\* the error is logged and handleMessage returns
SendErrorAborts(e) == FALSE

\* the component of tasks that counts the goroutines handling m
Class(m) == IF Panics(m) THEN 2 ELSE 1

NumTasks(t) == t[1] + t[2]

Init ==
    /\ pc = "init"
    /\ ctxErr = NoErr
    /\ offset = 0
    /\ n = 0
    /\ idx = 0
    /\ update = NoUpdate
    /\ err = NoErr
    /\ getMeErr = NoErr
    /\ ret = NoErr
    /\ retLine = 0
    /\ request = NoRequest
    /\ tasks = <<0, 0>>
    /\ crashed = FALSE
    /\ errStreak = 0
    /\ ascending = TRUE
    /\ received = 0
    /\ handed = 0
    /\ maxConsumed = -1
    /\ spawned = {}
    /\ respawned = FALSE
    /\ honoured = TRUE
    /\ advanced = TRUE
    /\ sendFailed = FALSE
    /\ registry = NoCommands
    /\ bot = NilBot
    /\ msg = NilMessage
    /\ executed = FALSE
    /\ calls = <<>>
    /\ registered = <<>>
    /\ procs = [p \in Procs |-> Idle]
    /\ invoked = [h \in Handlers |-> 0]
    /\ writer = NoWrite
    /\ written = <<>>
    /\ mixed = FALSE
    /\ fatal = FALSE
    /\ hasRegistry = FALSE
    /\ handled = NilMessage
    /\ sent = <<>>
    /\ panicked = FALSE
    /\ call = NoCall
    /\ outcome = NoOutcome
    /\ logs = {}
    /\ inflight = <<>>
    /\ overtaken = FALSE

\* the caller's cancel(): may happen at any time, also before Start
Cancel ==
    /\ ~crashed
    /\ ctxErr = NoErr
    /\ ctxErr' = Canceled
    /\ UNCHANGED <<pc, offset, n, idx, update, err, getMeErr, ret, retLine,
                   request, tasks, crashed, errStreak, ascending, received,
                   handed, maxConsumed, spawned, respawned, honoured,
                   advanced, sendFailed>>
    /\ UNCHANGED nonBotVars
    /\ UNCHANGED orderVars

\* Start is called and issues the getMe request; a request made with a
\* cancelled context fails at once.
StartCall ==
    /\ ~crashed
    /\ pc = "init"
    /\ IF ctxErr # NoErr
       THEN LET e == Wrap("error making request", ctxErr)
                r == AfterGetMe(e)
            IN  /\ getMeErr' = e
                /\ pc' = r.pc
                /\ ret' = r.ret
                /\ retLine' = r.line
       ELSE /\ pc' = "getMe"
            /\ UNCHANGED <<getMeErr, ret, retLine>>
    /\ UNCHANGED <<ctxErr, offset, n, idx, update, err, request, tasks,
                   crashed, errStreak, ascending, received, handed,
                   maxConsumed, spawned, respawned, honoured,
                   advanced, sendFailed>>
    /\ UNCHANGED nonBotVars
    /\ UNCHANGED orderVars

\* GetMe returns e (NoErr on success)
GetMeReturn(e) ==
    /\ ~crashed
    /\ pc = "getMe"
    /\ LET r == AfterGetMe(e)
       IN  /\ getMeErr' = e
           /\ pc' = r.pc
           /\ ret' = r.ret
           /\ retLine' = r.line
    /\ UNCHANGED <<ctxErr, offset, n, idx, update, err, request, tasks,
                   crashed, errStreak, ascending, received, handed,
                   maxConsumed, spawned, respawned, honoured,
                   advanced, sendFailed>>
    /\ UNCHANGED nonBotVars
    /\ UNCHANGED orderVars

\* one evaluation of the select statement at the top of the loop
LoopSelect ==
    /\ ~crashed
    /\ pc = "select"
    /\ ~LoopWaits(tasks)
    /\ n' = 0
    /\ idx' = 0
    /\ update' = NoUpdate
    /\ err' = NoErr
    /\ ascending' = TRUE
    /\ received' = 0
    /\ handed' = 0
    /\ IF SelectDone(ctxErr)
       THEN /\ pc' = "done"
            /\ ret' = ctxErr
            /\ retLine' = 161
            /\ UNCHANGED request
       ELSE /\ pc' = "getUpdates"
            /\ request' = GetUpdatesParams(offset)
            /\ UNCHANGED <<ret, retLine>>
    /\ UNCHANGED <<ctxErr, offset, getMeErr, tasks, crashed, errStreak,
                   maxConsumed, spawned, respawned, honoured,
                   advanced, sendFailed>>
    /\ UNCHANGED nonBotVars
    /\ UNCHANGED orderVars

\* getUpdates fails with e
GetUpdatesError(e) ==
    /\ ~crashed
    /\ pc = "getUpdates"
    /\ LET r == AfterFetchError(e, ctxErr)
       IN  /\ pc' = r.pc
           /\ ret' = r.ret
           /\ retLine' = r.line
    /\ err' = e
    /\ errStreak' = Sat(errStreak)
    /\ UNCHANGED <<ctxErr, offset, n, idx, update, getMeErr, request, tasks,
                   crashed, ascending, received, handed, maxConsumed, spawned,
                   respawned, honoured,
                   advanced, sendFailed>>
    /\ UNCHANGED nonBotVars
    /\ UNCHANGED orderVars

\* getUpdates returns a batch of k updates
GetUpdatesOk(k) ==
    /\ ~crashed
    /\ pc = "getUpdates"
    /\ n' = k
    /\ errStreak' = 0
    /\ pc' = AfterFetch(k)
    /\ offset' = OffsetAfterFetch(offset, k)
    /\ UNCHANGED <<ctxErr, idx, update, err, getMeErr, ret, retLine,
                   request, tasks, crashed, ascending, received, handed,
                   maxConsumed, spawned, respawned, honoured,
                   advanced, sendFailed>>
    /\ UNCHANGED nonBotVars
    /\ UNCHANGED orderVars

\* one iteration of the range loop: u is the next update of the batch
RangeBody(u) ==
    /\ ~crashed
    /\ pc = "range"
    /\ ~LoopWaits(tasks)
    /\ ~RangeStops(ctxErr)
    /\ u.message # NilMessage => NumTasks(tasks) < MaxTasks
    /\ update' = u
    /\ offset' = NextOffset(u)
    /\ IF Spawns(u)
       THEN /\ tasks' = [tasks EXCEPT ![Class(u.message[1])] = @ + 1]
            /\ handed' = handed + 1
            /\ spawned' = spawned \cup {u.update_id}
            /\ respawned' = (respawned \/ u.update_id \in spawned)
       ELSE UNCHANGED <<tasks, handed, spawned, respawned>>
    /\ idx' = idx + 1
    /\ pc' = IF idx + 1 = n THEN "select" ELSE "range"
    /\ received' = IF u.message # NilMessage THEN received + 1 ELSE received
    /\ ascending' = (ascending /\ (update # NoUpdate => u.update_id > update.update_id))
    /\ maxConsumed' = IF u.update_id > maxConsumed THEN u.update_id ELSE maxConsumed
    /\ honoured' = (honoured /\ Honours(u, update, request))
    /\ advanced' = (advanced /\
                      (Spawns(u) => OffsetAtSpawn(offset, u) = u.update_id + 1))
    /\ UNCHANGED <<ctxErr, n, err, getMeErr, ret, retLine, request, crashed,
                   errStreak, sendFailed>>
    /\ UNCHANGED nonBotVars

\* the same, where the goroutines are not tracked one by one
RangeStep(u) == RangeBody(u) /\ UNCHANGED orderVars

\* time.Sleep(3 * time.Second) ends; continue
SleepEnd ==
    /\ ~crashed
    /\ pc = "sleep"
    /\ pc' = AfterPause(ctxErr)
    /\ UNCHANGED <<ctxErr, offset, n, idx, update, err, getMeErr, ret, retLine,
                   request, tasks, crashed, errStreak, ascending, received,
                   handed, maxConsumed, spawned, respawned, honoured,
                   advanced, sendFailed>>
    /\ UNCHANGED nonBotVars
    /\ UNCHANGED orderVars

\* a handleMessage goroutine runs to its end: the text of m is not a command
\* and not empty, so it sends the reply, and SendMessage returns e
HandlerBody(m, e) ==
    /\ ~crashed
    /\ tasks[Class(m)] > 0
    /\ ~Panics(m)
    /\ tasks' = [tasks EXCEPT ![Class(m)] = @ - 1]
    /\ sendFailed' = (sendFailed \/ e # NoErr)
    /\ crashed' = SendErrorAborts(e)
    /\ UNCHANGED <<pc, ctxErr, offset, n, idx, update, err, getMeErr, ret,
                   retLine, request, errStreak, ascending, received,
                   handed, maxConsumed, spawned, respawned, honoured,
                   advanced>>
    /\ UNCHANGED nonBotVars

\* the same, where the goroutines are not tracked one by one
HandlerDone(m, e) == HandlerBody(m, e) /\ UNCHANGED orderVars

\* a handleMessage goroutine panics; no goroutine recovers, the process ends
HandlerPanic(m) ==
    /\ ~crashed
    /\ tasks[Class(m)] > 0
    /\ Panics(m)
    /\ crashed' = TRUE
    /\ UNCHANGED <<pc, ctxErr, offset, n, idx, update, err, getMeErr, ret,
                   retLine, request, tasks, errStreak, ascending, received,
                   handed, maxConsumed, spawned, respawned, honoured,
                   advanced, sendFailed>>
    /\ UNCHANGED nonBotVars
    /\ UNCHANGED orderVars

Next ==
    \/ Cancel
    \/ StartCall
    \/ \E e \in {NoErr} \cup GetMeErrors(ctxErr) : GetMeReturn(e)
    \/ LoopSelect
    \/ \E e \in GetUpdatesErrors(ctxErr) : GetUpdatesError(e)
    \/ \E k \in 0..MaxBatch : GetUpdatesOk(k)
    \/ \E u \in Updates : RangeStep(u)
    \/ SleepEnd
    \/ \E m \in Messages, e \in {NoErr} \cup SendMessageErrors(ctxErr) :
           HandlerDone(m, e)
    \/ \E m \in Messages : HandlerPanic(m)

Spec == Init /\ [][Next]_vars

\* ---- the handleMessage goroutines one by one ----
\* faulty variant: the goroutines end in the order they were started in
MayEndInOrder(i, q) == i = 1

\* whether the i-th of the goroutines in flight q may be the next to end:
\* `go b.handleMessage(ctx, msg)` starts goroutines that run on their own
\* and nothing orders their ends
MayEnd(i, q) == TRUE

\* q without its i-th element
Without(q, i) == SubSeq(q, 1, i - 1) \o SubSeq(q, i + 1, Len(q))

\* an iteration of the range loop, the goroutine it starts put on record
TrackedRangeStep(u) ==
    /\ RangeBody(u)
    /\ inflight' = IF Spawns(u)
                   THEN Append(inflight, <<u.update_id, Class(u.message[1])>>)
                   ELSE inflight
    /\ UNCHANGED overtaken

\* the i-th goroutine in flight runs to its end, its SendMessage returning e
TrackedHandlerDone(i, e) ==
    /\ i \in 1..Len(inflight)
    /\ MayEnd(i, inflight)
    /\ \E m \in Messages :
           /\ Class(m) = inflight[i][2]
           /\ HandlerBody(m, e)
    /\ inflight' = Without(inflight, i)
    /\ overtaken' = (overtaken \/ i > 1)

\* the updates whose message, if they carry one, has a sender
SenderUpdates == {u \in Updates : u.message # NilMessage => ~Panics(u.message[1])}

\* Start with a context that is not cancelled, a bot that verifies and
\* messages that have a sender, the goroutines on record
NextOrder ==
    \/ StartCall
    \/ GetMeReturn(NoErr)
    \/ LoopSelect
    \/ \E k \in 0..MaxBatch : GetUpdatesOk(k)
    \/ \E u \in SenderUpdates : TrackedRangeStep(u)
    \/ \E i \in 1..MaxTasks : TrackedHandlerDone(i, NoErr)

SpecOrder == Init /\ [][NextOrder]_vars

\* Register(command, action), by a caller that has no Execute call to look at
Register(command, action) ==
    /\ msg = NilMessage
    /\ registry' = Put(registry, command, action)
    /\ UNCHANGED <<bot, msg, executed, calls>>
    /\ UNCHANGED nonRegVars

\* a Register call that is recorded in the history
RegisterCall(command, action) ==
    /\ Len(registered) < MaxRegs
    /\ Register(command, action)
    /\ registered' = Append(registered, <<command, action>>)

\* Execute(ctx, b, m)
Execute(b, m) ==
    /\ msg = NilMessage
    /\ bot' = b
    /\ msg' = m
    /\ LET r == ExecuteResult(registry, b, m)
       IN  /\ executed' = r.ret
           /\ calls' = r.calls
    /\ UNCHANGED <<registry, registered>>
    /\ UNCHANGED nonRegVars

\* the caller of Execute has looked at the outcome and goes on
ExecuteSeen ==
    /\ msg # NilMessage
    /\ bot' = NilBot
    /\ msg' = NilMessage
    /\ executed' = FALSE
    /\ calls' = <<>>
    /\ UNCHANGED <<registry, registered>>
    /\ UNCHANGED nonRegVars

NextExec ==
    \/ /\ msg = NilMessage
       /\ \E command \in CommandNames, action \in Handlers :
              Register(command, action) /\ UNCHANGED registered
    \/ /\ msg = NilMessage
       /\ \E b \in Bots, m \in ExecMessages : Execute(b, m)
    \/ ExecuteSeen

\* the command registry on its own: any registrations, any Execute calls
SpecExec == Init /\ [][NextExec]_vars

\* ---- Bot.makeRequest and the operations built on it ----
\* A text (a URL, an error message, a log record) is a sequence of pieces.
Token == "test-token"
Methods == {"getMe", "getUpdates", "sendMessage"}

\* fmt.Sprintf(b.apiBaseURL, b.token, method), with apiURL
Url(method) == <<"https://api.telegram.org/bot", Token, "/", method>>

\* the envelope of a response: result stands for whether the operation can
\* decode it
Descriptions == {"", "Unauthorized", "Bad Request", "Not Found"}
Envelopes == [ok : BOOLEAN, description : Descriptions, result : {"valid", "invalid"}]

\* what the HTTP exchange does if it is made: client.Do fails, reading the
\* body fails, the body is not JSON, or the body is an envelope
Transports ==
    [kind : {"fail"}, cause : {<<"dial tcp: connection refused">>,
                               <<"context deadline exceeded (Client.Timeout exceeded)">>}]
    \cup [kind : {"readfail"}, cause : {<<"unexpected EOF">>}]
    \cup [kind : {"garbage"}]
    \cup [kind : {"envelope"}, env : Envelopes]

\* faulty variant: the exchange is made whatever the context says
ExchangeIgnoresContext(c, t) == t

\* b.client.Do(req) for a request made with ctx.Err() = c: the transport
\* looks at the context first and fails with its error if it is cancelled
Exchange(c, t) == IF c # NoErr THEN [kind |-> "fail", cause |-> c] ELSE t

\* the text of the *url.Error client.Do returns: Post "URL": cause
UrlError(method, cause) == <<"Post">> \o Url(method) \o cause

\* faulty variant: ok = false is not looked at
EnvelopeErrorIgnored(env) == NoErr

\* if !apiResp.Ok: fmt.Errorf("API error: %s", apiResp.Description)
EnvelopeError(env) ==
    IF ~env.ok THEN <<"API error", env.description>> ELSE NoErr

\* makeRequest(ctx, method, payload): the response (<<>>: nil) and the error.
\* The payloads of this package always marshal and the URL always parses.
MakeRequestResult(method, c, t) ==
    LET x == Exchange(c, t)
        fails(e) == [resp |-> <<>>, err |-> e]
    IN  CASE x.kind = "fail" ->
                 fails(Wrap("error making request", UrlError(method, x.cause)))
          [] x.kind = "readfail" ->
                 fails(Wrap("error reading response", x.cause))
          [] x.kind = "garbage" ->
                 fails(Wrap("error unmarshaling response", <<"invalid character">>))
          [] x.kind = "envelope" ->
                 IF EnvelopeError(x.env) # NoErr
                 THEN fails(EnvelopeError(x.env))
                 ELSE [resp |-> <<x.env>>, err |-> NoErr]

\* GetMe, getUpdates and SendMessage on the result r of makeRequest: the
\* value returned (<<>>: none) and the error
OperationResult(method, r) ==
    IF r.err # NoErr
    THEN [value |-> <<>>, err |-> r.err]
    ELSE CASE method = "getMe" ->
                  IF r.resp[1].result = "invalid"
                  THEN [value |-> <<>>, err |-> <<"json: cannot unmarshal">>]
                  ELSE [value |-> <<>>, err |-> NoErr]
           [] method = "getUpdates" ->
                  IF r.resp[1].result = "invalid"
                  THEN [value |-> <<>>,
                        err |-> Wrap("error unmarshaling updates", <<"json: cannot unmarshal">>)]
                  ELSE [value |-> <<"updates">>, err |-> NoErr]
           [] method = "sendMessage" ->
                  [value |-> <<>>, err |-> NoErr]

\* the log records the operation and its caller in the package write: GetMe
\* logs the bot it found, Start logs a failed fetch unless the context is
\* cancelled, handleMessage logs a failed send
LogRecords(method, c, e) ==
    CASE method = "getMe" ->
             IF e = NoErr
             THEN {<<"Bot iniciado: @", "testbot", " (", "TestBot", ")">>}
             ELSE {}
      [] method = "getUpdates" ->
             IF e # NoErr /\ c = NoErr
             THEN {<<"Error obteniendo updates: ">> \o e}
             ELSE {}
      [] method = "sendMessage" ->
             IF e # NoErr
             THEN {<<"Error enviando mensaje: ">> \o e}
             ELSE {}

\* one request: GetMe and getUpdates as Start calls them, SendMessage as
\* handleMessage calls it, with ctx.Err() = c and the exchange t
Request(method, c, t) ==
    /\ call' = [method |-> method, ctx |-> c, transport |-> t]
    /\ LET r == MakeRequestResult(method, c, t)
           o == OperationResult(method, r)
       IN  /\ outcome' = [resp |-> r.resp, err |-> r.err,
                          value |-> o.value, opErr |-> o.err]
           /\ logs' = LogRecords(method, c, o.err)
    /\ UNCHANGED <<regVars, registered, botVars, concVars, handleVars, orderVars>>

NextReq ==
    \E method \in Methods, c \in {NoErr, Canceled}, t \in Transports :
        Request(method, c, t)

\* the requests on their own: any method, any context, any exchange
SpecReq == Init /\ [][NextReq]_vars

\* ---- Bot.handleMessage, its routing ----
\* the constant part of the reply, as one piece
ReplyPrefix == <<"Recibí tu mensaje: ">>

\* fmt.Sprintf("Recibí tu mensaje: %s", msg.Text)
Reply(t) == ReplyPrefix \o t

\* faulty variant: a command that was not run falls through to the reply
AfterCommandEchoesUnknown(ran) == ~ran

\* whether handleMessage goes on to the reply after the command branch
\* (ran: Execute was called and returned true): the branch ends in "return"
AfterCommandEchoes(ran) == FALSE

\* handleMessage(ctx, m) of bot b: whether it panics, the result of its
\* Execute call if it makes one, and its SendMessage calls
HandleResult(hasReg, reg, b, m) ==
    LET echo == IF m.text # <<>>
                THEN <<[chat_id |-> m.chat_id, text |-> Reply(m.text)]>>
                ELSE <<>>
    IN  IF Panics(m)
        THEN [panic |-> TRUE, exec |-> <<>>, sends |-> <<>>]
        ELSE IF IsCommand(m.text)
             THEN LET exec == IF hasReg THEN <<ExecuteResult(reg, b, m)>> ELSE <<>>
                      ran == exec # <<>> /\ exec[1].ret
                  IN  [panic |-> FALSE, exec |-> exec,
                       sends |-> IF AfterCommandEchoes(ran) THEN echo ELSE <<>>]
             ELSE [panic |-> FALSE, exec |-> <<>>, sends |-> echo]

\* SetCommandRegistry(r): r is a registry (TRUE) or nil (FALSE)
SetCommandRegistry(r) ==
    /\ handled = NilMessage
    /\ hasRegistry' = r
    /\ UNCHANGED <<handled, sent, panicked>>
    /\ UNCHANGED <<regVars, registered, botVars, concVars, reqVars, orderVars>>

\* handleMessage(ctx, m), as a whole
HandleMessage(b, m) ==
    /\ handled = NilMessage
    /\ handled' = m
    /\ LET r == HandleResult(hasRegistry, registry, b, m)
       IN  /\ panicked' = r.panic
           /\ sent' = r.sends
           /\ IF r.exec # <<>>
              THEN /\ bot' = b
                   /\ msg' = m
                   /\ executed' = r.exec[1].ret
                   /\ calls' = r.exec[1].calls
              ELSE UNCHANGED <<bot, msg, executed, calls>>
    /\ UNCHANGED <<hasRegistry, registry, registered>>
    /\ UNCHANGED <<botVars, concVars, reqVars, orderVars>>

\* the caller of handleMessage goes on: the record of the call is dropped
HandleSeen ==
    /\ handled # NilMessage
    /\ handled' = NilMessage
    /\ sent' = <<>>
    /\ panicked' = FALSE
    /\ bot' = NilBot
    /\ msg' = NilMessage
    /\ executed' = FALSE
    /\ calls' = <<>>
    /\ UNCHANGED <<hasRegistry, registry, registered>>
    /\ UNCHANGED <<botVars, concVars, reqVars, orderVars>>

NextHandle ==
    \/ \E r \in BOOLEAN : SetCommandRegistry(r)
    \/ /\ handled = NilMessage
       /\ \E command \in CommandNames, action \in Handlers :
              Register(command, action) /\ UNCHANGED registered
    \/ /\ handled = NilMessage
       /\ \E b \in Bots, m \in HandleMessages : HandleMessage(b, m)
    \/ HandleSeen

\* handleMessage on its own, for any registry and any message
SpecHandle == Init /\ [][NextHandle]_vars

\* ---- concurrent calls ----
\* A map read and a map write are not atomic: each is in progress between
\* two steps.  A read that overlaps a write is a data race, whose outcome is
\* any lookup result or the end of the process.

\* goroutine p calls Execute with the text "/" StartCommand: the prefix check and the
\* extraction are done, the map read begins
ExecBegin(p) ==
    /\ ~fatal
    /\ procs[p].pc = "idle"
    /\ procs' = [procs EXCEPT ![p].pc = "read", ![p].raced = (writer # NoWrite)]
    /\ mixed' = (mixed \/ writer # NoWrite)
    /\ UNCHANGED <<invoked, writer, written, fatal>>
    /\ UNCHANGED <<registry, bot, msg, executed, calls, registered>>
    /\ UNCHANGED nonConcVars

\* the map read of goroutine p ends with the result f; the handler found
\* is called, or Execute returns false
ExecRead(p, f) ==
    /\ ~fatal
    /\ procs[p].pc = "read"
    /\ procs[p].raced \/ f = Lookup(registry, CommandOf(Fields(Marker \o StartCommand)))
    /\ registry' = TableAfterLookup(registry, CommandOf(Fields(Marker \o StartCommand)))
    /\ IF f = <<>>
       THEN /\ procs' = [procs EXCEPT ![p].pc = "done", ![p].ret = FALSE]
            /\ UNCHANGED invoked
       ELSE /\ procs' = [procs EXCEPT ![p].pc = "call", ![p].found = f,
                                       ![p].running = TRUE]
            /\ invoked' = [invoked EXCEPT ![f[1]] = @ + 1]
    /\ UNCHANGED <<writer, written, mixed, fatal>>
    /\ UNCHANGED <<bot, msg, executed, calls, registered>>
    /\ UNCHANGED nonConcVars

\* the runtime detects the concurrent map read and map write
ExecFatal(p) ==
    /\ ~fatal
    /\ procs[p].pc = "read"
    /\ procs[p].raced
    /\ fatal' = TRUE
    /\ UNCHANGED <<procs, invoked, writer, written, mixed>>
    /\ UNCHANGED <<registry, bot, msg, executed, calls, registered>>
    /\ UNCHANGED nonConcVars

\* the handler that goroutine p called returns
HandlerReturn(p) ==
    /\ ~fatal
    /\ procs[p].running
    /\ procs' = [procs EXCEPT ![p].running = FALSE]
    /\ UNCHANGED <<invoked, writer, written, mixed, fatal>>
    /\ UNCHANGED <<registry, bot, msg, executed, calls, registered>>
    /\ UNCHANGED nonConcVars

\* Execute of goroutine p returns true
ExecReturn(p) ==
    /\ ~fatal
    /\ procs[p].pc = "call"
    /\ CanReturn(procs[p])
    /\ procs' = [procs EXCEPT ![p].pc = "done", ![p].ret = TRUE]
    /\ UNCHANGED <<invoked, writer, written, mixed, fatal>>
    /\ UNCHANGED <<registry, bot, msg, executed, calls, registered>>
    /\ UNCHANGED nonConcVars

\* another goroutine calls Register(StartCommand, action): the map write begins
RegisterBegin(action) ==
    /\ ~fatal
    /\ writer = NoWrite
    /\ writer' = <<StartCommand, action>>
    /\ procs' = [p \in Procs |->
                    IF procs[p].pc = "read"
                    THEN [procs[p] EXCEPT !.raced = TRUE]
                    ELSE procs[p]]
    /\ mixed' = (mixed \/ \E p \in Procs : procs[p].pc # "idle")
    /\ UNCHANGED <<invoked, written, fatal>>
    /\ UNCHANGED <<registry, bot, msg, executed, calls, registered>>
    /\ UNCHANGED nonConcVars

\* the map write ends
RegisterEnd ==
    /\ ~fatal
    /\ writer # NoWrite
    /\ registry' = Put(registry, writer[1], writer[2])
    /\ writer' = NoWrite
    /\ written' = <<writer[2]>>
    /\ UNCHANGED <<procs, invoked, mixed, fatal>>
    /\ UNCHANGED <<bot, msg, executed, calls, registered>>
    /\ UNCHANGED nonConcVars

NextConc ==
    \/ \E p \in Procs : ExecBegin(p)
    \/ \E p \in Procs, f \in {<<>>} \cup {<<h>> : h \in Handlers} : ExecRead(p, f)
    \/ \E p \in Procs : ExecFatal(p)
    \/ \E p \in Procs : HandlerReturn(p)
    \/ \E p \in Procs : ExecReturn(p)
    \/ \E action \in Handlers : RegisterBegin(action)
    \/ RegisterEnd

\* MaxProcs goroutines that call Execute and one that calls Register
SpecConc == Init /\ [][NextConc]_vars

\* the message whose text is "/" and then name
CommandMessage(name) ==
    [from |-> <<CHOOSE u \in Users : TRUE>>, chat_id |-> 1, text |-> Marker \o name]

NextReg ==
    \/ /\ msg = NilMessage
       /\ \E command \in CommandNames, action \in Handlers :
              RegisterCall(command, action)
    \/ /\ msg = NilMessage
       /\ \E b \in Bots, name \in CommandNames : Execute(b, CommandMessage(name))
    \/ ExecuteSeen

\* the command registry with the history of its Register calls, and Execute
\* calls for the registered names
SpecReg == Init /\ [][NextReg]_vars

\* the steps of the goroutine that runs Start, once it polls
StartStep ==
    \/ LoopSelect
    \/ \E e \in GetUpdatesErrors(ctxErr) : GetUpdatesError(e)
    \/ \E k \in 0..MaxBatch : GetUpdatesOk(k)
    \/ \E u \in Updates : RangeStep(u)
    \/ SleepEnd

\* ---- offset management ----

\* C1 as stated: the offset never decreases, whatever batches the update
\* source returns.
C1_OffsetNeverDecreases == [][offset' >= offset]_vars

\* C1 (amended): as long as every batch the update source returns is in
\* strictly ascending id order and holds no id below the requested offset,
\* each new value of offset is greater than or equal to the previous one.
C1_OffsetNeverDecreasesWhenHonoured == [][honoured' => offset' >= offset]_vars

C1_Witness ==
    /\ honoured
    /\ pc = "select"
    /\ errStreak >= 1
    /\ maxConsumed = MaxId
    /\ offset = MaxId + 1

\* C2: once the loop has processed a non-empty batch with ascending ids
\* u1 < ... < un, the offset equals un + 1 (update is the last update of the
\* batch then).
C2_OffsetAfterBatch ==
    (pc = "select" /\ n > 0 /\ idx = n /\ ascending)
        => offset = update.update_id + 1

C2_Witness ==
    /\ pc = "select"
    /\ n >= 2
    /\ idx = n
    /\ ascending
    /\ offset = update.update_id + 1

\* C3 as stated: after the loop has processed an update with id U, every
\* later fetch is requested with an offset of at least U + 1.
C3_NoRedelivery == pc = "getUpdates" => request.offset >= maxConsumed + 1

\* C3 (amended): the same, as long as every batch the update source has
\* returned is in strictly ascending id order and holds no id below the
\* requested offset.
C3_NoRedeliveryWhenHonoured ==
    (honoured /\ pc = "getUpdates") => request.offset >= maxConsumed + 1

C3_Witness ==
    /\ honoured
    /\ pc = "getUpdates"
    /\ maxConsumed = 1
    /\ request.offset = 2

\* C4: if the update source honours the offset, every message of a
\* successfully fetched batch is handed to exactly one handleMessage
\* goroutine: no update has its message handed twice, the loop has spawned
\* one goroutine for each message it has taken from the batch, and it leaves
\* the batch only when it has taken all of it.
C4_ExactlyOnce ==
    honoured =>
        /\ ~respawned
        /\ handed = received
        /\ (update # NoUpdate /\ update.message # NilMessage)
              => update.update_id \in spawned
        /\ pc \in {"select", "getUpdates", "sleep", "done"} => idx = n

C4_Witness ==
    /\ honoured
    /\ pc = "sleep"
    /\ errStreak >= 1
    /\ spawned = Ids
    /\ ~respawned

\* ---- the outcome of Start ----

\* C5: if GetMe fails, Start returns at once with an error that wraps the
\* cause, and no fetch is issued and no message dispatched.
C5_StartupFailure ==
    getMeErr # NoErr =>
        /\ pc = "done"
        /\ retLine = 152
        /\ Head(ret) = "error verificando bot"
        /\ Tail(ret) = getMeErr
        /\ request = NoRequest
        /\ maxConsumed = -1
        /\ spawned = {}
        /\ NumTasks(tasks) = 0

C5_Witness ==
    /\ pc = "done"
    /\ getMeErr = <<"API error">>
    /\ ret = <<"error verificando bot", "API error">>

\* C6: a fetch error that arrives when the context is cancelled makes Start
\* return ctx.Err(), not the fetch error, with no pause and no further fetch.
C6_CancellationPriority ==
    [][/\ (pc = "getUpdates" /\ err' # NoErr /\ ctxErr # NoErr)
             => /\ pc' = "done"
                /\ ret' = Canceled
                /\ ret' # err'
       /\ pc = "done" => pc' = "done"]_vars

C6_Witness ==
    /\ pc = "done"
    /\ retLine = 167
    /\ ret = Canceled
    /\ err = <<"API error">>

\* C7: whenever Start returns because the context was cancelled (the error
\* it returns has context.Canceled as its cause), it returns context.Canceled
\* itself.
C7_CancelledOutcome ==
    (pc = "done" /\ ErrorsIs(ret, Canceled)) => ret = Canceled

\* C8: an iteration that begins with the context cancelled returns ctx.Err()
\* and issues no fetch.
C8_CheckBeforeFetch ==
    [][(pc = "select" /\ ctxErr # NoErr /\ pc' # "select")
          => /\ pc' = "done"
             /\ ret' = Canceled
             /\ retLine' = 161
             /\ request' = request]_vars

C8_Witness ==
    /\ pc = "done"
    /\ retLine = 161
    /\ ret = Canceled
    /\ request # NoRequest

\* C9: Start returns either ctx.Err() of the cancelled context or the wrapped
\* verification error; never nil and never the error of a fetch.
C9_OnlyTwoOutcomes ==
    pc = "done" =>
        /\ ret # NoErr
        /\ \/ ret = Canceled /\ ctxErr = Canceled
           \/ /\ getMeErr # NoErr
              /\ Head(ret) = "error verificando bot"
              /\ Tail(ret) = getMeErr
        /\ err # NoErr => ret # err

C9_Witness ==
    /\ pc = "done"
    /\ ret = Canceled
    /\ retLine = 161
    /\ errStreak >= 1

\* C10: while the context is not cancelled, a fetch error leads to the pause,
\* the pause leads back to the select with no fetch issued meanwhile, and the
\* select issues the next fetch with the current offset, however many errors
\* came before.
C10_RetryAfterPause ==
    [][/\ (pc = "getUpdates" /\ err' # NoErr /\ ctxErr = NoErr) => pc' = "sleep"
       /\ pc = "sleep" =>
             /\ pc' \in {"sleep", "select"}
             /\ request' = request
       /\ (pc = "select" /\ ctxErr = NoErr /\ pc' # "select") =>
             /\ pc' = "getUpdates"
             /\ request' = GetUpdatesParams(offset)]_vars

C10_Witness ==
    /\ pc = "getUpdates"
    /\ ctxErr = NoErr
    /\ errStreak = MaxCount

\* ---- the loop and the handler goroutines ----

\* C11: once the context is cancelled after polling has begun, Start goes on
\* to return ctx.Err() whatever the handler goroutines do: until it has
\* returned, the goroutine that runs Start always has a next step (the fetch
\* in flight returns, the pause ends, the range loop and the select go on).
C11_ReturnsAfterCancel ==
    (ctxErr # NoErr /\ pc \in {"select", "getUpdates", "range", "sleep"})
        => ENABLED StartStep

\* C12: an iteration of the range loop starts exactly one handleMessage
\* goroutine when the update carries a message and none when it does not, and
\* in both cases leaves the offset at the update's id + 1.
C12_OneTaskPerMessage ==
    [][(pc = "range" /\ idx' = idx + 1) =>
        /\ offset' = update'.update_id + 1
        /\ IF update'.message # NilMessage
           THEN /\ NumTasks(tasks') = NumTasks(tasks) + 1
                /\ handed' = handed + 1
           ELSE /\ tasks' = tasks
                /\ handed' = handed]_vars

\* a batch of a message and then an update without one has been processed:
\* one goroutine was started and the offset follows the second update
C12_Witness ==
    /\ pc = "select"
    /\ n = 2
    /\ idx = 2
    /\ received = 1
    /\ handed = 1
    /\ update.message = NilMessage
    /\ offset = update.update_id + 1

\* C13: no step of the loop waits for a handleMessage goroutine: with
\* goroutines in flight, the range loop takes whatever update comes next (up
\* to MaxTasks goroutines) and the select statement is evaluated.
C13_NeverWaits ==
    (~crashed /\ NumTasks(tasks) > 0) =>
        /\ pc = "range" =>
              \A u \in Updates :
                  (u.message # NilMessage => NumTasks(tasks) < MaxTasks)
                      => ENABLED RangeStep(u)
        /\ pc = "select" => ENABLED LoopSelect

\* the next fetch was issued while MaxTasks goroutines were still running
C13_Witness ==
    /\ ~crashed
    /\ pc = "getUpdates"
    /\ request # NoRequest
    /\ request.offset > 0
    /\ NumTasks(tasks) = MaxTasks

\* C14: in each iteration of the range loop b.offset is already the update's
\* id + 1 when the go statement runs, and the loop takes one update at a time,
\* so the assignment for an update precedes the assignment for the next one;
\* nothing here depends on the goroutines started earlier.
C14_AdvanceBeforeSpawn ==
    [][(pc = "range" /\ idx' # idx) =>
        /\ idx' = idx + 1
        /\ offset' = update'.update_id + 1
        /\ advanced']_vars

\* two messages of one batch were handed over, the second while the goroutine
\* of the first was still running
C14_Witness ==
    /\ idx = 2
    /\ handed = 2
    /\ NumTasks(tasks) = 2
    /\ advanced
    /\ offset = update.update_id + 1

\* C15: the step in which a handleMessage goroutine ends, its SendMessage
\* having failed or not, leaves the offset, the position of Start, what Start
\* returned and the latest request as they were and does not end the process;
\* and after a failed send, Start still has a next step wherever it polls.
C15_SendFailureLocal ==
    /\ [][NumTasks(tasks') < NumTasks(tasks) =>
            /\ offset' = offset
            /\ pc' = pc
            /\ ret' = ret
            /\ retLine' = retLine
            /\ request' = request
            /\ crashed' = crashed]_vars
    /\ []((sendFailed /\ ~crashed /\
               pc \in {"select", "getUpdates", "range", "sleep"})
             => ENABLED StartStep)

\* a send has failed, every goroutine has ended, and the next fetch is out
C15_Witness ==
    /\ sendFailed
    /\ ~crashed
    /\ NumTasks(tasks) = 0
    /\ pc = "getUpdates"
    /\ request.offset > 0

\* ---- CommandRegistry.Execute ----

\* C16: Execute returns true exactly when the text is a command whose name
\* is a key of the table, letter for letter; it then calls the handler under
\* that key once, and otherwise calls no handler.
C16_ExecutedIffRegistered ==
    msg # NilMessage =>
        LET hit == /\ IsCommand(msg.text)
                   /\ CommandOf(Fields(msg.text)) \in DOMAIN registry
        IN  /\ executed = hit
            /\ executed =>
                  /\ Len(calls) = 1
                  /\ calls[1].handler = registry[CommandOf(Fields(msg.text))]
            /\ ~executed => calls = <<>>

\* "/a" ran the handler registered as "a", not the other one under "A"
C16_Witness ==
    /\ msg # NilMessage
    /\ msg.text = <<"/", "a">>
    /\ DOMAIN registry = {<<"a">>, <<"A">>}
    /\ registry[<<"a">>] # registry[<<"A">>]
    /\ executed
    /\ Len(calls) = 1
    /\ calls[1].handler = registry[<<"a">>]

\* C17: for a text that does not start with "/" Execute returns false and
\* calls no handler, whatever the table holds.
C17_NoMarker ==
    (msg # NilMessage /\ (msg.text = <<>> \/ msg.text[1] # "/")) =>
        /\ ~executed
        /\ calls = <<>>

\* the text "a" with a handler registered as "a": not executed
C17_Witness ==
    /\ msg # NilMessage
    /\ msg.text = <<"a">>
    /\ <<"a">> \in DOMAIN registry
    /\ ~executed
    /\ calls = <<>>

\* the text is the marker, or the marker and then white space only
MarkerOnly(t) ==
    /\ t # <<>>
    /\ t[1] = "/"
    /\ \A i \in 2..Len(t) : IsSpace(t[i])

\* C18: for the text "/", or "/" followed by white space only, Execute
\* returns false and calls no handler, whatever the table holds.
C18_MarkerOnly ==
    (msg # NilMessage /\ MarkerOnly(msg.text)) =>
        /\ ~executed
        /\ calls = <<>>

\* the name the text t of a command stands for: what follows the marker, up
\* to the first white space or "@"
NameLookedUp(t) ==
    LET stops == {j \in 2..Len(t) : IsSpace(t[j]) \/ t[j] = "@"}
        stop == IF stops = {}
                THEN Len(t) + 1
                ELSE CHOOSE j \in stops : \A k \in stops : j <= k
    IN  SubSeq(t, 2, stop - 1)

\* C19: for a command Execute looks up the first token without its marker
\* and without what follows the first "@": it returns true exactly when that
\* name is in the table and then calls the handler registered under it;
\* nothing after the first token takes part.
C19_NameLookedUp ==
    (msg # NilMessage /\ IsCommand(msg.text)) =>
        /\ executed = (NameLookedUp(msg.text) \in DOMAIN registry)
        /\ executed => calls[1].handler = registry[NameLookedUp(msg.text)]

\* "/a@A a", a name with a selector and an argument, ran the handler of "a"
C19_Witness ==
    /\ msg # NilMessage
    /\ msg.text = <<"/", "a", "@", "A", " ", "a">>
    /\ executed
    /\ calls[1].handler = registry[<<"a">>]

\* C20: the handler Execute calls gets the bot and the message Execute was
\* given, the text of the message being the whole text.
C20_SameArguments ==
    (msg # NilMessage /\ executed) =>
        \A i \in 1..Len(calls) :
            /\ calls[i].args.bot = bot
            /\ calls[i].args.msg = msg

\* the handler of "a" got the text "/a@A a" as it came
C20_Witness ==
    /\ msg # NilMessage
    /\ executed
    /\ Len(calls) = 1
    /\ bot \in Bots
    /\ calls[1].args.bot = bot
    /\ calls[1].args.msg.text = <<"/", "a", "@", "A", " ", "a">>

\* ---- CommandRegistry.Register ----

\* the handler of the latest Register call for name in the history h
LastRegistered(h, name) ==
    LET is == {i \in 1..Len(h) : h[i][1] = name}
    IN  h[CHOOSE i \in is : \A j \in is : j <= i][2]

\* C21: after any Register calls the table has one entry for each name that
\* was registered, however often, and Execute of "/name" calls the handler
\* of the latest Register call for name, once, and no other.
C21_LastRegistrationWins ==
    /\ Cardinality(DOMAIN registry) =
           Cardinality({registered[i][1] : i \in 1..Len(registered)})
    /\ (msg # NilMessage /\
           \E i \in 1..Len(registered) : Marker \o registered[i][1] = msg.text) =>
           /\ executed
           /\ Len(calls) = 1
           /\ calls[1].handler = LastRegistered(registered, Tail(msg.text))

\* "a" was registered with h1 and then with h2: one entry, and "/a" ran h2
C21_Witness ==
    /\ registered = << <<<<"a">>, "h1">>, <<<<"a">>, "h2">> >>
    /\ Cardinality(DOMAIN registry) = 1
    /\ msg # NilMessage
    /\ msg.text = <<"/", "a">>
    /\ Len(calls) = 1
    /\ calls[1].handler = "h2"

\* ---- concurrent Execute and Register ----

\* the goroutines whose Execute call has called a handler
Called == {p \in Procs : procs[p].pc = "call" \/ (procs[p].pc = "done" /\ procs[p].ret)}

\* C22: with a handler registered for the command before the first of the
\* concurrent Execute calls began and no Register call since, every call
\* that has finished returned true and the handler has been called once for
\* each call that got past its lookup, so N times when all N have finished;
\* no other handler has been called.
C22_ConcurrentExecute ==
    (~mixed /\ writer = NoWrite /\ written # <<>>) =>
        /\ \A p \in Procs : procs[p].pc = "done" => procs[p].ret
        /\ invoked[written[1]] = Cardinality(Called)
        /\ \A h \in Handlers : h # written[1] => invoked[h] = 0

\* all MaxProcs calls have returned true, the handler was called MaxProcs times
C22_Witness ==
    /\ ~mixed
    /\ written # <<>>
    /\ \A p \in Procs : procs[p].pc = "done" /\ procs[p].ret
    /\ invoked[written[1]] = MaxProcs

\* C23: no map read of an Execute call is in progress while a map write of
\* a Register call is.
C23_NoConcurrentAccess ==
    ~(writer # NoWrite /\ \E p \in Procs : procs[p].pc = "read")

\* C24: an Execute call that has returned true has a handler call behind it
\* that has returned; and the map read of a call, and with it the start of
\* its handler, never has to wait for the handler of another call.
C24_SynchronousHandler ==
    /\ \A p \in Procs :
           (procs[p].pc = "done" /\ procs[p].ret) =>
               (procs[p].found # <<>> /\ ~procs[p].running)
    /\ ~fatal =>
           \A p \in Procs :
               procs[p].pc = "read" =>
                   ENABLED ExecRead(p, Lookup(registry, StartCommand))

\* the handlers of two Execute calls are running at the same time, and a
\* third call has returned true after its handler
C24_Witness ==
    /\ \E p, q \in Procs : p # q /\ procs[p].running /\ procs[q].running
    /\ \E p \in Procs : procs[p].pc = "done" /\ procs[p].ret /\ ~procs[p].running

\* ---- Bot.handleMessage, its routing ----

\* C25: handleMessage on a command, with no registry set, calls no handler,
\* sends nothing and does not abort.
C25_NoRegistryNoop ==
    (handled # NilMessage /\ IsCommand(handled.text) /\ ~hasRegistry) =>
        /\ ~panicked
        /\ sent = <<>>
        /\ calls = <<>>

Contains(s, t) ==
    \E i \in 0..(Len(s) - Len(t)) : SubSeq(s, i + 1, i + Len(t)) = t

\* C27: handleMessage on a text that is not a command makes one SendMessage
\* call, to the chat of the message and with a text that has the received
\* text in it, when the text is not empty, and none when it is empty; it
\* calls no handler.
C27_EchoOnce ==
    (handled # NilMessage /\ ~IsCommand(handled.text)) =>
        /\ calls = <<>>
        /\ IF handled.text # <<>>
           THEN /\ Len(sent) = 1
                /\ sent[1].chat_id = handled.chat_id
                /\ Contains(sent[1].text, handled.text)
           ELSE sent = <<>>

\* ---- requests ----

\* C28: a request whose response is an envelope with ok = false returns an
\* error that has the description of the envelope in it, from makeRequest
\* and from the operation, and returns no response and no value; a response
\* is returned only for an envelope with ok = true.
C28_ApiErrorCarriesDescription ==
    call # NoCall =>
        /\ (call.ctx = NoErr /\ call.transport.kind = "envelope" /\
              ~call.transport.env.ok) =>
               /\ outcome.resp = <<>>
               /\ outcome.value = <<>>
               /\ outcome.err # NoErr
               /\ \E i \in 1..Len(outcome.err) :
                      outcome.err[i] = call.transport.env.description
               /\ outcome.opErr = outcome.err
        /\ (outcome.resp # <<>> \/ outcome.value # <<>>) =>
               /\ call.transport.kind = "envelope"
               /\ call.transport.env.ok

\* sendMessage got {"ok": false, "description": "Bad Request"}
C28_Witness ==
    /\ call # NoCall
    /\ call.method = "sendMessage"
    /\ call.ctx = NoErr
    /\ call.transport.kind = "envelope"
    /\ ~call.transport.env.ok
    /\ outcome.opErr = <<"API error", "Bad Request">>
    /\ outcome.resp = <<>>

\* C29: a request made with a cancelled context returns an error and no
\* response from makeRequest, and an error and no value from GetMe,
\* getUpdates and SendMessage.
C29_CancelledRequestFails ==
    (call # NoCall /\ call.ctx # NoErr) =>
        /\ outcome.err # NoErr
        /\ outcome.resp = <<>>
        /\ outcome.opErr # NoErr
        /\ outcome.value = <<>>

\* getUpdates with a cancelled context and a server that would have answered
C29_Witness ==
    /\ call # NoCall
    /\ call.method = "getUpdates"
    /\ call.ctx = Canceled
    /\ call.transport.kind = "envelope"
    /\ call.transport.env.ok
    /\ call.transport.env.result = "valid"
    /\ ErrorsIs(outcome.opErr, Canceled)
    /\ outcome.value = <<>>

\* C30: no log record has the token in it.
C30_TokenNotLogged ==
    \A r \in logs : \A i \in 1..Len(r) : r[i] # Token

\* ---- what a step of Start leaves alone ----

\* C31: the step in which a fetch returns an error or an empty batch leaves
\* the offset as it was and starts no handleMessage goroutine, the pause
\* after an error does neither, and the fetch that follows such a fetch is
\* requested with the parameters of the one before.
C31_FailedOrEmptyFetch ==
    [][/\ (pc = "getUpdates" /\ pc' # "getUpdates" /\ (err' # NoErr \/ n' = 0))
            => /\ offset' = offset
               /\ tasks' = tasks
               /\ spawned' = spawned
               /\ handed' = handed
               /\ pc' # "range"
       /\ pc = "sleep" => (offset' = offset /\ spawned' = spawned)
       /\ (pc = "select" /\ pc' = "getUpdates" /\ request # NoRequest /\ n = 0)
            => request' = request]_vars

\* after a batch that moved the offset to 1 a fetch failed, and the fetch
\* after the pause is out with offset 1 again
C31_Witness ==
    /\ pc = "getUpdates"
    /\ errStreak = 1
    /\ maxConsumed = 0
    /\ offset = 1
    /\ request = GetUpdatesParams(1)
    /\ spawned = {0}

\* C32: the offset is 0 until Start processes a batch, so the first fetch is
\* requested with offset 0, and the only step that changes it is an iteration
\* of the range loop over a fetched batch, which sets it to the id of the
\* update it takes plus 1; GetMe, getUpdates and the handleMessage goroutines
\* with their SendMessage leave it as it is.
C32_SingleWriter ==
    /\ [][offset' # offset =>
            /\ pc = "range"
            /\ idx' = idx + 1
            /\ offset' = NextOffset(update')]_vars
    /\ [](pc \in {"init", "getMe"} => offset = 0)
    /\ []((pc = "getUpdates" /\ maxConsumed = -1) => request.offset = 0)

\* the range loop has taken update 1 as the first of two and set the offset
\* to 2, with the goroutine of an earlier batch still running
C32_Witness ==
    /\ pc = "range"
    /\ n = 2
    /\ idx = 1
    /\ update.update_id = 1
    /\ update.message = NilMessage
    /\ offset = 2
    /\ NumTasks(tasks) = 1

\* ---- the order of the steps of Start ----

\* C33: Start calls GetMe once, as its first step: GetMe is entered only from
\* the start of Start, which is never entered again, and its result stands
\* for the rest of the run, fetch errors included; and whenever Start polls,
\* has issued a fetch or has started a handleMessage goroutine, that one
\* GetMe has returned without an error.
C33_VerifiedOnceFirst ==
    /\ [][/\ pc' = "getMe" => pc \in {"init", "getMe"}
          /\ pc' = "init" => pc = "init"
          /\ pc \notin {"init", "getMe"} => getMeErr' = getMeErr]_vars
    /\ []((\/ pc \in {"select", "getUpdates", "range", "sleep"}
           \/ request # NoRequest
           \/ maxConsumed # -1
           \/ spawned # {}
           \/ NumTasks(tasks) > 0)
             => (getMeErr = NoErr /\ pc \notin {"init", "getMe"}))

\* Start pauses after MaxCount failed fetches in a row, a goroutine it
\* started before is running, and GetMe has not been called again
C33_Witness ==
    /\ pc = "sleep"
    /\ errStreak = MaxCount
    /\ getMeErr = NoErr
    /\ NumTasks(tasks) = 1
    /\ request.offset = 1

\* C34: a handleMessage goroutine is started only by an iteration of the
\* range loop, for the update that iteration takes, so the goroutines start
\* in the order of the batch; as long as the update source returns ascending
\* ids, each goroutine is started for an id above every id a goroutine was
\* started for before; and any goroutine in flight that does not panic may be
\* the next to end, whatever its place in that order.
C34_SpawnOrder ==
    /\ [][Len(inflight') > Len(inflight) =>
            /\ pc = "range"
            /\ idx' = idx + 1
            /\ inflight' = Append(inflight, <<update'.update_id,
                                             Class(update'.message[1])>>)
            /\ honoured' => \A i \in spawned : i < update'.update_id]_vars
    /\ [](~crashed =>
            \A i \in 1..Len(inflight) :
                inflight[i][2] = 1 => ENABLED TrackedHandlerDone(i, NoErr))

\* goroutines were started for updates 0 and 1 in that order, and the one
\* for update 1 has ended while the one for update 0 is still running
C34_Witness ==
    /\ honoured
    /\ ~crashed
    /\ overtaken
    /\ spawned = {0, 1}
    /\ inflight = <<(<<0, 1>>)>>

\* ---- what Register and Execute leave alone ----

\* C35: a Register call for a name leaves the table with the entries it had
\* under every other name, unchanged, and with the handler given under that
\* name; an Execute call, whether it returns true or false, and the return to
\* its caller leave the whole table as it was.
C35_OtherEntriesKept ==
    [][/\ Len(registered') > Len(registered) =>
            LET name == registered'[Len(registered')][1]
                h == registered'[Len(registered')][2]
            IN  /\ DOMAIN registry' = DOMAIN registry \cup {name}
                /\ registry'[name] = h
                /\ \A c \in DOMAIN registry \ {name} : registry'[c] = registry[c]
       /\ (msg' # msg \/ executed' # executed) => registry' = registry]_vars

\* two names were registered with h1, the first was registered again with
\* h2, and an Execute call for the second name has run h1
C35_Witness ==
    /\ Len(registered) = 3
    /\ registered[1][1] # registered[2][1]
    /\ registered[3][1] = registered[1][1]
    /\ registry = (registered[1][1] :> "h2") @@ (registered[2][1] :> "h1")
    /\ msg = CommandMessage(registered[2][1])
    /\ executed
    /\ calls # <<>>
    /\ calls[1].handler = "h1"

\* ---- handleMessage goroutines and the process ----

\* C36: no handleMessage goroutine ends the process, whatever message the
\* update source has delivered, a message without a sender included.
C36_NoHandlerAbort == ~crashed

\* ---- cancellation inside an iteration ----

\* C37: the range loop does not look at the context. From inside a batch
\* Start goes only to the next update or, the whole batch taken, to the
\* select, and returns nothing meanwhile; with the context cancelled and the
\* process alive the range loop still takes whatever update comes next (up
\* to MaxTasks goroutines), and that iteration sets the offset to the
\* update's id + 1 and starts the goroutine of its message as any other.
C37_BatchNotInterrupted ==
    /\ [][pc = "range" =>
            /\ pc' \in {"range", "select"}
            /\ pc' = "select" => idx' = n
            /\ ret' = ret
            /\ retLine' = retLine
            /\ (ctxErr # NoErr /\ idx' = idx + 1) =>
                   /\ offset' = update'.update_id + 1
                   /\ handed' = IF update'.message # NilMessage
                                THEN handed + 1 ELSE handed]_vars
    /\ []((ctxErr # NoErr /\ pc = "range" /\ ~crashed) =>
            \A u \in Updates :
                (u.message # NilMessage => NumTasks(tasks) < MaxTasks)
                    => ENABLED RangeStep(u))

\* the context is cancelled and the whole batch of two messages has been
\* processed: two goroutines started, the offset past the second update, and
\* Start is about to find the cancellation at the select
C37_Witness ==
    /\ ctxErr = Canceled
    /\ pc = "select"
    /\ n = 2
    /\ idx = 2
    /\ handed = 2
    /\ offset = update.update_id + 1
    /\ ~crashed

\* C38: with the context cancelled, the pause after a failed fetch issues no
\* fetch and leads only to the select statement, and the select statement
\* that follows failed fetches then makes Start return ctx.Err() with no
\* fetch issued.
C38_CancelDuringPause ==
    [][/\ (pc = "sleep" /\ ctxErr' # NoErr) =>
            /\ pc' \in {"sleep", "select"}
            /\ request' = request
            /\ ret' = ret
       /\ (pc = "select" /\ errStreak >= 1 /\ ctxErr # NoErr /\ pc' # pc) =>
            /\ pc' = "done"
            /\ ret' = ctxErr
            /\ request' = request
            /\ offset' = offset]_vars

\* the first fetch failed with the context not cancelled, and Start has
\* returned ctx.Err() from the select after the pause: the cancellation came
\* while it paused
C38_Witness ==
    /\ pc = "done"
    /\ retLine = 161
    /\ ret = Canceled
    /\ errStreak = 1
    /\ request = GetUpdatesParams(0)
    /\ maxConsumed = -1

====
